---- MODULE Spec2Model ----
(***************************************************************************)
(* Suffix-array index of the repository (include/suffixarray.h,            *)
(* include/serial.h, include/utilities.h): construction (normalizer,       *)
(* suffix array, prefix table), persistence (save / load / fromSave),       *)
(* query and the batch call queries.                                       *)
(*                                                                         *)
(* Conventions.  A std::string is a sequence of one-character strings; a   *)
(* C++ position p (0-based) is element p+1 of the sequence.  The suffix    *)
(* array holds 0-based positions.  The prefix table is a function from     *)
(* keys (strings) to pairs <<first, second>>.                              *)
(***************************************************************************)
EXTENDS Integers, Sequences, FiniteSets, TLC

VARIABLES
    pc,               \* position in the life cycle of the index
    raw,              \* the string handed to the constructor
    omp,              \* TRUE iff the build defines _OPENMP
    sa,               \* the constructed SuffixArray object (sa1 of tests.cc)
    file,             \* bytes of the saved index file
    sa2,              \* the object that loads the file (sa2 of tests.cc)
    q,                \* the Query record handed to query()
    mode,             \* QueryMode of the last query or batch
    batch,            \* the Query records handed to queries()
    work,             \* per record of the batch: the locals of its query() call;
                      \* per byte of data_: the locals of its normalizer call
    rng               \* the std::mt19937 rng of the constructor

vars == <<pc, raw, omp, sa, file, sa2, q, mode, batch, work, rng>>

(***************************************************************************)
(* Bounds of the model.                                                    *)
(***************************************************************************)
MaxLen == 4           \* longest reference given to the constructor (Spec)
MaxK == 3             \* largest prefix-table parameter
MaxPat == 3           \* longest query pattern
MaxRaw == 3           \* longest raw input of the normalizer specification
MaxLoadLen == 1       \* longest reference of the index that is saved (SpecLoad)
MaxLoadK == 1         \* largest prefix-table parameter of that index
MaxBatchLen == 1      \* longest reference of the index a batch is asked of
MaxBatchK == 1        \* largest prefix-table parameter of that index
MaxBatch == 2         \* most records in a batch
MaxStepLen == 2       \* longest raw input normalized step by step

\* bytes a reference is made of in Spec (lower case is upper-cased)
RefBytes == {"A", "c"}
\* bytes of a raw input in SpecNormalizer: DNA, lower case, foreign, sentinel
NormBytes == {"A", "t", "N", "$"}
\* bytes of a raw input normalized step by step: lower-case DNA, foreign
StepBytes == {"t", "N"}
\* bytes of a query pattern
PatBytes == {"A", "C", "T"}
\* the patterns of the records of a batch
BatchPatterns == {<<>>, <<"A">>, <<"C">>, <<"C", "A">>}
\* <<reference, k>> of the objects that call load() on the file in SpecLoad
ReceiverInputs == {<<<<"c">>, 1>>, <<<<"A", "c">>, 2>>}

Strings(bytes, n) == UNION {[1..m -> bytes] : m \in 0..n}

Min(a, b) == IF a <= b THEN a ELSE b

(***************************************************************************)
(* Bytes.  Ord is the value of a char; index size() of a std::string reads *)
(* as the terminator NUL.                                                  *)
(***************************************************************************)
NUL == "\\0"

Ord(c) ==
    CASE c = NUL -> 0
      [] c = "$" -> 36
      [] c = "A" -> 65
      [] c = "C" -> 67
      [] c = "G" -> 71
      [] c = "N" -> 78
      [] c = "T" -> 84
      [] c = "a" -> 97
      [] c = "c" -> 99
      [] c = "g" -> 103
      [] c = "n" -> 110
      [] c = "t" -> 116

Chars == {NUL, "$", "A", "C", "G", "N", "T", "a", "c", "g", "n", "t"}

Chr(b) == CHOOSE c \in Chars : Ord(c) = b

\* std::toupper in the "C" locale
ToUpper(c) ==
    CASE c = "a" -> "A"
      [] c = "c" -> "C"
      [] c = "g" -> "G"
      [] c = "n" -> "N"
      [] c = "t" -> "T"
      [] OTHER -> c

\* byte at 0-based position p; position size() is the terminator
CharAt(s, p) == IF p < Len(s) THEN s[p + 1] ELSE NUL

\* std::string::substr(pos, n): clamped to the end of the string
Substr(s, pos, n) == SubSeq(s, pos + 1, Min(Len(s), pos + n))

(***************************************************************************)
(* std::string::compare(pos1, n1, str, pos2, n2): both substrings clamped, *)
(* compared bytewise, a proper prefix being smaller.  Result is -1, 0, 1.  *)
(***************************************************************************)
RECURSIVE SeqCompare(_, _, _)
SeqCompare(x, y, i) ==
    IF i > Len(x) /\ i > Len(y) THEN 0
    ELSE IF i > Len(x) THEN -1
    ELSE IF i > Len(y) THEN 1
    ELSE IF Ord(x[i]) < Ord(y[i]) THEN -1
    ELSE IF Ord(x[i]) > Ord(y[i]) THEN 1
    ELSE SeqCompare(x, y, i + 1)

Compare(s, pos1, n1, t, pos2, n2) ==
    SeqCompare(Substr(s, pos1, n1), Substr(t, pos2, n2), 1)

(***************************************************************************)
(* utilities::LCPLength: std::mismatch over [sBegin, sEnd) against the     *)
(* range starting at tBegin; the second range is not bounded, so it may    *)
(* read the terminator at data_.end().                                     *)
(***************************************************************************)
RECURSIVE Mismatch(_, _, _, _)
Mismatch(s, t, tpos, i) ==
    IF i >= Len(s) THEN i
    ELSE IF s[i + 1] # CharAt(t, tpos + i) THEN i
    ELSE Mismatch(s, t, tpos, i + 1)

LCPLength(s, t, tpos) == Mismatch(s, t, tpos, 0)

(***************************************************************************)
(* The SuffixArray object: its four persistent fields.                     *)
(***************************************************************************)
EmptyTable == <<>>

SuffixArrayObject(data, suffixes, k, table) ==
    [data_ |-> data, suffixes_ |-> suffixes,
     prefixTableSize_ |-> k, prefixTable_ |-> table]

NoObject == SuffixArrayObject(<<>>, <<>>, 0, EmptyTable)

\* unordered_map::insert: an existing key keeps its value
Insert(table, key, value) ==
    [w \in DOMAIN table \cup {key} |->
        IF w \in DOMAIN table THEN table[w] ELSE value]

\* element at 0-based index i of a vector
At(v, i) == v[i + 1]

(***************************************************************************)
(* Constructor, first part: the normalizer.  Every byte is upper-cased and *)
(* a byte outside A, T, G, C is replaced by ALPHABET[dist(rng)], dist      *)
(* being uniform on 0..3; then '$' is appended.                            *)
(***************************************************************************)
ALPHABET == <<"A", "T", "G", "C">>

\* variant of NormalizeByte: the byte is tested without being upper-cased
NormalizeByteNoUpper(c) ==
    IF c # "A" /\ c # "T" /\ c # "G" /\ c # "C"
    THEN {ALPHABET[r + 1] : r \in 0..3}
    ELSE {c}

NormalizeByte(c) ==
    LET u == ToUpper(c)
    IN  IF u # "A" /\ u # "T" /\ u # "G" /\ u # "C"
        THEN {ALPHABET[r + 1] : r \in 0..3}
        ELSE {u}

\* std::for_each over the bytes of data_: the strings it can leave
RECURSIVE NormalizeEach(_)
NormalizeEach(str) ==
    IF str = <<>> THEN {<<>>}
    ELSE {<<c>> \o rest : c \in NormalizeByte(Head(str)), rest \in NormalizeEach(Tail(str))}

\* the texts the constructor can store for the input rawIn: data_.push_back('$')
NormalizedTexts(rawIn) == {Append(d, "$") : d \in NormalizeEach(rawIn)}

(***************************************************************************)
(* Constructor, second part: libsais.  The library is not part of the      *)
(* repository; it is modelled by its contract: the permutation of          *)
(* 0..size-1 that lists the suffixes in increasing bytewise order.         *)
(***************************************************************************)
SuffixLess(data, p1, p2) ==
    Compare(data, p1, Len(data), data, p2, Len(data)) < 0

buildSuffixArray(data) ==
    [i \in 1..Len(data) |->
        CHOOSE p \in 0..(Len(data) - 1) :
            Cardinality({r \in 0..(Len(data) - 1) : SuffixLess(data, r, p)}) = i - 1]

(***************************************************************************)
(* buildPrefixTable(rangeStart, rangeEnd, prefixTable).  Indices are the   *)
(* 0-based distances from begin(suffixes_).                                *)
(***************************************************************************)
hasSamePrefix(data, k, idx1, idx2) == Compare(data, idx1, k, data, idx2, k) = 0

\* variant of FindLongEnough: a suffix one byte short of k passes the test
RECURSIVE FindLongEnoughOneShort(_, _, _, _, _)
FindLongEnoughOneShort(data, suffixes, k, first, last) ==
    IF first >= last THEN last
    ELSE IF Len(data) - At(suffixes, first) >= k - 1 THEN first
    ELSE FindLongEnoughOneShort(data, suffixes, k, first + 1, last)

\* variant of FindLongEnough: the test is > where the code has >=
RECURSIVE FindLongEnoughStrict(_, _, _, _, _)
FindLongEnoughStrict(data, suffixes, k, first, last) ==
    IF first >= last THEN last
    ELSE IF Len(data) - At(suffixes, first) > k THEN first
    ELSE FindLongEnoughStrict(data, suffixes, k, first + 1, last)

\* std::find_if(first, last, [](offset) { return (dataLen-offset) >= k; })
RECURSIVE FindLongEnough(_, _, _, _, _)
FindLongEnough(data, suffixes, k, first, last) ==
    IF first >= last THEN last
    ELSE IF Len(data) - At(suffixes, first) >= k THEN first
    ELSE FindLongEnough(data, suffixes, k, first + 1, last)

\* std::find_if_not(first, last, [](idx) { return hasSamePrefix(ref, idx); })
RECURSIVE FindNotSamePrefix(_, _, _, _, _, _)
FindNotSamePrefix(data, suffixes, k, ref, first, last) ==
    IF first >= last THEN last
    ELSE IF ~hasSamePrefix(data, k, ref, At(suffixes, first)) THEN first
    ELSE FindNotSamePrefix(data, suffixes, k, ref, first + 1, last)

\* variant of PrefixGroups: the scan for the end of a group stops at rangeEnd
RECURSIVE PrefixGroupsBounded(_, _, _, _, _, _)
PrefixGroupsBounded(data, suffixes, k, iter, rangeEnd, table) ==
    IF rangeEnd - iter <= 0 THEN table
    ELSE LET prefix == Substr(data, At(suffixes, iter), k)
             endOfRange == FindNotSamePrefix(data, suffixes, k, At(suffixes, iter),
                                             iter, rangeEnd)
             start == iter
             end == endOfRange - 1
         IN  PrefixGroupsBounded(data, suffixes, k, endOfRange, rangeEnd,
                                 Insert(table, prefix, <<start, end>>))

\* the while loop of buildPrefixTable, from iter
RECURSIVE PrefixGroups(_, _, _, _, _, _)
PrefixGroups(data, suffixes, k, iter, rangeEnd, table) ==
    IF rangeEnd - iter <= 0 THEN table
    ELSE LET prefix == Substr(data, At(suffixes, iter), k)
             endOfRange == FindNotSamePrefix(data, suffixes, k, At(suffixes, iter),
                                             iter, Len(suffixes))
             start == iter
             end == endOfRange - 1
         IN  PrefixGroups(data, suffixes, k, endOfRange, rangeEnd,
                          Insert(table, prefix, <<start, end>>))

buildPrefixTable(data, suffixes, k, rangeStart, rangeEnd, table) ==
    PrefixGroups(data, suffixes, k,
                 FindLongEnough(data, suffixes, k, rangeStart, rangeEnd),
                 rangeEnd, table)

(***************************************************************************)
(* buildPrefixTableParallel: NUM_CHUNKS workers, each with a table of its  *)
(* own, then a sequential merge.  Worker i > 0 reads *std::prev(iter); for *)
(* a chunk that starts at index 0 that is the int32 stored before the      *)
(* array, an undefined read whose value is the parameter g.                *)
(***************************************************************************)
NUM_CHUNKS == 128

ChunkStart(i, size) == (i * size) \div NUM_CHUNKS

PrevOf(suffixes, iter, g) == IF iter >= 1 THEN At(suffixes, iter - 1) ELSE g

\* data.compare(idx1, k, data, idx2, k) throws std::out_of_range when a
\* position lies beyond size(); inside the parallel region that ends the
\* process (std::terminate)
ChunkThrows(data, suffixes, k, i, g) ==
    /\ i # 0
    /\ LET p == PrevOf(suffixes, ChunkStart(i, Len(suffixes)), g)
       IN  p < 0 \/ p > Len(data)

ChunkTable(data, suffixes, k, i, g) ==
    LET first == ChunkStart(i, Len(suffixes))
        endOfRange == ChunkStart(i + 1, Len(suffixes))
        iter == IF /\ i # 0
                   /\ hasSamePrefix(data, k, At(suffixes, first),
                                    PrevOf(suffixes, first, g))
                THEN FindNotSamePrefix(data, suffixes, k, At(suffixes, first),
                                       first, endOfRange)
                ELSE first
    IN  buildPrefixTable(data, suffixes, k, iter, endOfRange, EmptyTable)

\* prefixTable_.insert(begin(tab), end(tab)): keys already present are kept
MergeTable(table, tab) ==
    [w \in DOMAIN table \cup DOMAIN tab |->
        IF w \in DOMAIN table THEN table[w] ELSE tab[w]]

\* "rejoin tables": the tables of chunks lo..hi-1 inserted in chunk order
\* (insertion is associative, so the fold is evaluated as a balanced tree)
RECURSIVE RejoinTables(_, _, _, _, _, _)
RejoinTables(data, suffixes, k, g, lo, hi) ==
    IF hi - lo = 1 THEN MergeTable(EmptyTable, ChunkTable(data, suffixes, k, lo, g))
    ELSE LET mid == (lo + hi) \div 2
         IN  MergeTable(RejoinTables(data, suffixes, k, g, lo, mid),
                        RejoinTables(data, suffixes, k, g, mid, hi))

ParallelThrows(data, suffixes, k, g) ==
    \E i \in 0..(NUM_CHUNKS - 1) : ChunkThrows(data, suffixes, k, i, g)

buildPrefixTableParallel(data, suffixes, k, g) ==
    RejoinTables(data, suffixes, k, g, 0, NUM_CHUNKS)

(***************************************************************************)
(* query(q, mode): range narrowing, lower bound, upper bound, slice.       *)
(***************************************************************************)
Modes == {"Naive", "SimpleAccelerant"}

\* variant of SearchOffset: the LCP with the left end of the bracket alone
SearchOffsetLowerOnly(data, suffixes, pat, m, lower, iter) ==
    IF m = "SimpleAccelerant"
    THEN LCPLength(pat, data, At(suffixes, lower))
    ELSE 0

\* searchOffset of one iteration
SearchOffset(data, suffixes, pat, m, lower, iter) ==
    IF m = "SimpleAccelerant"
    THEN Min(LCPLength(pat, data, At(suffixes, lower)),
             LCPLength(pat, data, At(suffixes, iter)))
    ELSE 0

\* variant of LowerStep: going right, the range loses step, not step + 1
LowerStepKeepsOne(data, suffixes, pat, m, lower, range) ==
    LET step == range \div 2
        iter == lower + step
        searchOffset == SearchOffset(data, suffixes, pat, m, lower, iter)
        searchLength == Len(pat) - searchOffset
    IN  IF Compare(data, At(suffixes, iter) + searchOffset, searchLength,
                   pat, searchOffset, searchLength) < 0
        THEN <<iter + 1, range - step>>
        ELSE <<lower, step>>

\* variant of LowerStep: the test is <= 0 where the code has < 0
LowerStepLoose(data, suffixes, pat, m, lower, range) ==
    LET step == range \div 2
        iter == lower + step
        searchOffset == SearchOffset(data, suffixes, pat, m, lower, iter)
        searchLength == Len(pat) - searchOffset
    IN  IF Compare(data, At(suffixes, iter) + searchOffset, searchLength,
                   pat, searchOffset, searchLength) <= 0
        THEN <<iter + 1, range - (step + 1)>>
        ELSE <<lower, step>>

\* one iteration of the lower_bound loop: <<lower, range>> after it
LowerStep(data, suffixes, pat, m, lower, range) ==
    LET step == range \div 2
        iter == lower + step
        searchOffset == SearchOffset(data, suffixes, pat, m, lower, iter)
        searchLength == Len(pat) - searchOffset
    IN  IF Compare(data, At(suffixes, iter) + searchOffset, searchLength,
                   pat, searchOffset, searchLength) < 0
        THEN <<iter + 1, range - (step + 1)>>
        ELSE <<lower, step>>

\* the lower_bound loop: while (range > 0)
RECURSIVE LowerBound(_, _, _, _, _, _)
LowerBound(data, suffixes, pat, m, lower, range) ==
    IF range <= 0 THEN lower
    ELSE LET next == LowerStep(data, suffixes, pat, m, lower, range)
         IN  LowerBound(data, suffixes, pat, m, next[1], next[2])

\* variant of UpperBound: the comparison leaves out the last byte of the pattern
RECURSIVE UpperBoundShort(_, _, _, _, _, _)
UpperBoundShort(data, suffixes, pat, m, lower, range) ==
    IF range <= 0 THEN lower
    ELSE LET step == range \div 2
             iter == lower + step
             searchOffset == SearchOffset(data, suffixes, pat, m, lower, iter)
             searchLength == IF Len(pat) - searchOffset > 0
                             THEN Len(pat) - searchOffset - 1 ELSE 0
         IN  IF Compare(pat, searchOffset, searchLength,
                        data, At(suffixes, iter) + searchOffset, searchLength) >= 0
             THEN UpperBoundShort(data, suffixes, pat, m, iter + 1, range - (step + 1))
             ELSE UpperBoundShort(data, suffixes, pat, m, lower, step)

\* variant of UpperBound: the test is > 0 where the code has >= 0
RECURSIVE UpperBoundStrict(_, _, _, _, _, _)
UpperBoundStrict(data, suffixes, pat, m, lower, range) ==
    IF range <= 0 THEN lower
    ELSE LET step == range \div 2
             iter == lower + step
             searchOffset == SearchOffset(data, suffixes, pat, m, lower, iter)
             searchLength == Len(pat) - searchOffset
         IN  IF Compare(pat, searchOffset, searchLength,
                        data, At(suffixes, iter) + searchOffset, searchLength) > 0
             THEN UpperBoundStrict(data, suffixes, pat, m, iter + 1, range - (step + 1))
             ELSE UpperBoundStrict(data, suffixes, pat, m, lower, step)

\* variant of UpperStep: the comparison leaves out the last byte of the pattern
UpperStepShort(data, suffixes, pat, m, lower, range) ==
    LET step == range \div 2
        iter == lower + step
        searchOffset == SearchOffset(data, suffixes, pat, m, lower, iter)
        searchLength == IF Len(pat) - searchOffset > 0
                        THEN Len(pat) - searchOffset - 1 ELSE 0
    IN  IF Compare(pat, searchOffset, searchLength,
                   data, At(suffixes, iter) + searchOffset, searchLength) >= 0
        THEN <<iter + 1, range - (step + 1)>>
        ELSE <<lower, step>>

\* one iteration of the upper_bound loop: <<lower, range>> after it
UpperStep(data, suffixes, pat, m, lower, range) ==
    LET step == range \div 2
        iter == lower + step
        searchOffset == SearchOffset(data, suffixes, pat, m, lower, iter)
        searchLength == Len(pat) - searchOffset
    IN  IF Compare(pat, searchOffset, searchLength,
                   data, At(suffixes, iter) + searchOffset, searchLength) >= 0
        THEN <<iter + 1, range - (step + 1)>>
        ELSE <<lower, step>>

\* the upper_bound loop: while (range > 0)
RECURSIVE UpperBound(_, _, _, _, _, _)
UpperBound(data, suffixes, pat, m, lower, range) ==
    IF range <= 0 THEN lower
    ELSE LET next == UpperStep(data, suffixes, pat, m, lower, range)
         IN  UpperBound(data, suffixes, pat, m, next[1], next[2])

\* q.query.substr(prefixTableSize_): the pattern from position k to its end
SubQuery(pat, k) == SubSeq(pat, k + 1, Len(pat))

\* variant of SearchRange: the length test is dropped and a pattern whose
\* sub-query is no key gets the empty range
SearchRangeMissingEmpty(obj, pat) ==
    IF DOMAIN obj.prefixTable_ # {}
    THEN IF SubQuery(pat, obj.prefixTableSize_) \in DOMAIN obj.prefixTable_
         THEN <<obj.prefixTable_[SubQuery(pat, obj.prefixTableSize_)][1],
                obj.prefixTable_[SubQuery(pat, obj.prefixTableSize_)][2]>>
         ELSE <<0, 0>>
    ELSE <<0, Len(obj.suffixes_)>>

\* <<searchStart, searchEnd>> after the narrowing step
SearchRange(obj, pat) ==
    IF /\ DOMAIN obj.prefixTable_ # {}
       /\ Len(pat) >= obj.prefixTableSize_
       /\ SubQuery(pat, obj.prefixTableSize_) \in DOMAIN obj.prefixTable_
    THEN <<obj.prefixTable_[SubQuery(pat, obj.prefixTableSize_)][1],
           obj.prefixTable_[SubQuery(pat, obj.prefixTableSize_)][2]>>
    ELSE <<0, Len(obj.suffixes_)>>

\* variant of Slice: the positions of the slice sorted into ascending order
SliceSorted(suffixes, lowerIndex, upperIndex) ==
    LET S == {suffixes[i] : i \in (lowerIndex + 1)..upperIndex}
    IN  [i \in 1..Cardinality(S) |->
            CHOOSE p \in S : Cardinality({r \in S : r < p}) = i - 1]

\* variant of Slice: the element at upperIndex is taken too
SliceInclusive(suffixes, lowerIndex, upperIndex) ==
    SubSeq(suffixes, lowerIndex + 1, Min(upperIndex + 1, Len(suffixes)))

\* std::vector<int32_t>(lowerIndex, upperIndex)
Slice(suffixes, lowerIndex, upperIndex) == SubSeq(suffixes, lowerIndex + 1, upperIndex)

query(obj, pat, m) ==
    LET range == SearchRange(obj, pat)
        lowerIndex == LowerBound(obj.data_, obj.suffixes_, pat, m,
                                 range[1], range[2] - range[1])
        upperIndex == UpperBound(obj.data_, obj.suffixes_, pat, m,
                                 range[1], range[2] - range[1])
    IN  Slice(obj.suffixes_, lowerIndex, upperIndex)

\* the 0-based positions of t that std::mismatch reads in LCPLength(s, t, tpos)
MismatchReads(s, t, tpos) ==
    LET lcp == LCPLength(s, t, tpos)
    IN  {tpos + i : i \in 0..(IF lcp < Len(s) THEN lcp ELSE lcp - 1)}

\* the reads of one iteration of a binary-search loop of query(), at
\* <<lower, range>>, stay inside suffixes_ and data_ and raise nothing
IterationInBounds(data, suffixes, pat, m, lower, range) ==
    LET iter == lower + (range \div 2)
    IN  /\ 0 <= lower /\ iter < Len(suffixes)
        /\ \A x \in {lower, iter} :
              /\ 0 <= At(suffixes, x) /\ At(suffixes, x) <= Len(data)
              /\ m = "SimpleAccelerant"
                    => \A p \in MismatchReads(pat, data, At(suffixes, x)) : p < Len(data)
        /\ LET searchOffset == SearchOffset(data, suffixes, pat, m, lower, iter)
           IN  /\ searchOffset <= Len(pat)
               /\ At(suffixes, iter) + searchOffset <= Len(data)

\* the lower_bound loop from <<lower, range>> with its reads checked: the
\* index it ends at, or -1 when an iteration reads out of bounds or leaves a
\* range that is negative or not smaller than before
RECURSIVE LowerLoopTotal(_, _, _, _, _, _)
LowerLoopTotal(data, suffixes, pat, m, lower, range) ==
    IF range <= 0 THEN lower
    ELSE IF ~IterationInBounds(data, suffixes, pat, m, lower, range) THEN -1
    ELSE LET next == LowerStep(data, suffixes, pat, m, lower, range)
         IN  IF 0 <= next[2] /\ next[2] < range
             THEN LowerLoopTotal(data, suffixes, pat, m, next[1], next[2])
             ELSE -1

\* the same for the upper_bound loop
RECURSIVE UpperLoopTotal(_, _, _, _, _, _)
UpperLoopTotal(data, suffixes, pat, m, lower, range) ==
    IF range <= 0 THEN lower
    ELSE IF ~IterationInBounds(data, suffixes, pat, m, lower, range) THEN -1
    ELSE LET next == UpperStep(data, suffixes, pat, m, lower, range)
         IN  IF 0 <= next[2] /\ next[2] < range
             THEN UpperLoopTotal(data, suffixes, pat, m, next[1], next[2])
             ELSE -1

\* query(pat, m) on obj runs to its end: the range after narrowing lies in
\* suffixes_, both loops are total, and the slice taken at the end is a
\* range of suffixes_.  Where this fails the C++ call reads out of bounds,
\* throws std::out_of_range or does not return.
QueryTotal(obj, pat, m) ==
    LET range == SearchRange(obj, pat)
        lowerIndex == LowerLoopTotal(obj.data_, obj.suffixes_, pat, m,
                                     range[1], range[2] - range[1])
        upperIndex == UpperLoopTotal(obj.data_, obj.suffixes_, pat, m,
                                     range[1], range[2] - range[1])
    IN  /\ 0 <= range[1] /\ range[1] <= Len(obj.suffixes_)
        /\ 0 <= range[2] /\ range[2] <= Len(obj.suffixes_)
        /\ 0 <= lowerIndex
        /\ lowerIndex <= upperIndex
        /\ upperIndex <= Len(obj.suffixes_)

(***************************************************************************)
(* serial.h: a trivial value is written as its sizeof bytes (little        *)
(* endian on the host), a container as its size() followed by its values.  *)
(* A file is a sequence of bytes 0..255.                                   *)
(***************************************************************************)
\* the 8 bytes of a size_t
SizeBytes(v) ==
    <<v % 256, (v \div 256) % 256, (v \div 65536) % 256, (v \div 16777216) % 256,
      0, 0, 0, 0>>

\* the 4 bytes of an int32_t (two's complement)
Int32Bytes(v) ==
    IF v >= 0
    THEN <<v % 256, (v \div 256) % 256, (v \div 65536) % 256, (v \div 16777216) % 256>>
    ELSE LET u == (v + 2147483647) + 1
         IN  <<u % 256, (u \div 256) % 256, (u \div 65536) % 256,
               ((u \div 16777216) % 256) + 128>>

\* the value of 8 bytes read into a size_t
SizeValue(b) == b[1] + 256 * b[2] + 65536 * b[3] + 16777216 * b[4]

\* variant of Int32Value: the bytes taken most significant first
Int32ValueBigEndian(b) ==
    IF b[1] < 128
    THEN b[4] + 256 * b[3] + 65536 * b[2] + 16777216 * b[1]
    ELSE ((b[4] + 256 * b[3] + 65536 * b[2] + 16777216 * (b[1] - 128)) - 2147483647) - 1

\* the value of 4 bytes read into an int32_t
Int32Value(b) ==
    IF b[4] < 128
    THEN b[1] + 256 * b[2] + 65536 * b[3] + 16777216 * b[4]
    ELSE ((b[1] + 256 * b[2] + 65536 * b[3] + 16777216 * (b[4] - 128)) - 2147483647) - 1

\* FILE_MAGIC = 0xabeefdad as the 4 bytes of a uint32_t
FILE_MAGIC == <<173, 253, 238, 171>>

RECURSIVE Flatten(_)
Flatten(ss) == IF ss = <<>> THEN <<>> ELSE Head(ss) \o Flatten(Tail(ss))

\* serial::serialize of a std::string
SerializeString(str) ==
    SizeBytes(Len(str)) \o [i \in 1..Len(str) |-> Ord(str[i])]

\* serial::serialize of a std::vector<int32_t>
SerializeVector(v) ==
    SizeBytes(Len(v)) \o Flatten([i \in 1..Len(v) |-> Int32Bytes(v[i])])

\* the orders in which a range-for may visit the keys of an unordered_map
RECURSIVE Orders(_)
Orders(S) ==
    IF S = {} THEN {<<>>}
    ELSE UNION {{<<x>> \o r : r \in Orders(S \ {x})} : x \in S}

\* variant of serialize: the entry count is written for k = 0 as well
serializeAlwaysCount(obj, keyOrder) ==
    SerializeString(obj.data_)
    \o SerializeVector(obj.suffixes_)
    \o SizeBytes(obj.prefixTableSize_)
    \o SizeBytes(Cardinality(DOMAIN obj.prefixTable_))
    \o Flatten([i \in 1..Len(keyOrder) |->
           SerializeString(keyOrder[i])
           \o Int32Bytes(obj.prefixTable_[keyOrder[i]][1])
           \o Int32Bytes(obj.prefixTable_[keyOrder[i]][2])])

\* SuffixArray::serialize, the table visited in the order keyOrder
serialize(obj, keyOrder) ==
    SerializeString(obj.data_)
    \o SerializeVector(obj.suffixes_)
    \o SizeBytes(obj.prefixTableSize_)
    \o (IF obj.prefixTableSize_ # 0
        THEN SizeBytes(Cardinality(DOMAIN obj.prefixTable_))
             \o Flatten([i \in 1..Len(keyOrder) |->
                    SerializeString(keyOrder[i])
                    \o Int32Bytes(obj.prefixTable_[keyOrder[i]][1])
                    \o Int32Bytes(obj.prefixTable_[keyOrder[i]][2])])
        ELSE <<>>)

\* SuffixArray::save: the magic, then the object
save(obj, keyOrder) == FILE_MAGIC \o serialize(obj, keyOrder)

(***************************************************************************)
(* Reading.  A stream is the bytes of the file, the read position and the  *)
(* state of the stream.  The code never enables exceptions on the          *)
(* std::ifstream and never tests it after a read: a read that meets the    *)
(* end of the file stores the bytes there are, leaves the rest of the      *)
(* buffer as it was and sets failbit; every later read stores nothing.     *)
(***************************************************************************)
Stream(bytes) == [bytes |-> bytes, pos |-> 0, good |-> TRUE]

\* gcount() of istream::read(buffer, n)
Extracted(st, n) == IF st.good THEN Min(n, Len(st.bytes) - st.pos) ELSE 0

\* the n bytes of the buffer after istream::read(buffer, n); old is the
\* buffer before the call
ReadBytes(st, old, n) ==
    [i \in 1..n |-> IF i <= Extracted(st, n) THEN st.bytes[st.pos + i] ELSE old[i]]

\* the stream after reads of n bytes in all
Skip(st, n) ==
    IF ~st.good \/ n = 0 THEN st
    ELSE IF st.pos + n <= Len(st.bytes) THEN [st EXCEPT !.pos = @ + n]
    ELSE [st EXCEPT !.pos = Len(st.bytes), !.good = FALSE]

\* values an uninitialized local can hold when a read leaves it untouched:
\* tmpMagic of load, tmpSize, start and end of SuffixArray::deserialize
Indeterminate ==
    {[tmpMagic |-> magic, tmpSize |-> size, start |-> pair[1], end |-> pair[2]] :
        magic \in {<<173, 253, 238, 171>>, <<0, 0, 0, 0>>},
        size \in {0, 1},
        pair \in {<<0, 0>>, <<-1, 7>>}}

\* serial::deserialize of a std::string that holds old:
\* <<string, stream after it>>
DeserializeString(st, old) ==
    LET size == SizeValue(ReadBytes(st, SizeBytes(0), 8))
        body == Skip(st, 8)
        resized == [i \in 1..size |-> IF i <= Len(old) THEN old[i] ELSE NUL]
    IN  <<[i \in 1..size |->
             Chr(ReadBytes(Skip(body, i - 1), <<Ord(resized[i])>>, 1)[1])],
          Skip(body, size)>>

\* serial::deserialize of a std::vector<int32_t> that holds old:
\* <<vector, stream after it>>
DeserializeVector(st, old) ==
    LET size == SizeValue(ReadBytes(st, SizeBytes(0), 8))
        body == Skip(st, 8)
        resized == [i \in 1..size |-> IF i <= Len(old) THEN old[i] ELSE 0]
    IN  <<[i \in 1..size |->
             Int32Value(ReadBytes(Skip(body, 4 * (i - 1)), Int32Bytes(resized[i]), 4))],
          Skip(body, 4 * size)>>

\* the for loop of SuffixArray::deserialize, left entries still to read:
\* <<table, stream after the loop>>
RECURSIVE DeserializeEntries(_, _, _, _)
DeserializeEntries(st, left, table, u) ==
    IF left = 0 THEN <<table, st>>
    ELSE LET key == DeserializeString(st, <<>>)
             start == Int32Value(ReadBytes(key[2], Int32Bytes(u.start), 4))
             end == Int32Value(ReadBytes(Skip(key[2], 4), Int32Bytes(u.end), 4))
         IN  DeserializeEntries(Skip(key[2], 8), left - 1,
                                Insert(table, key[1], <<start, end>>), u)

\* SuffixArray::deserialize into the object obj: <<object, stream after it>>
deserialize(obj, st, u) ==
    LET data == DeserializeString(st, obj.data_)
        suffixes == DeserializeVector(data[2], obj.suffixes_)
        k == SizeValue(ReadBytes(suffixes[2], SizeBytes(obj.prefixTableSize_), 8))
        rest == Skip(suffixes[2], 8)
        entries == DeserializeEntries(Skip(rest, 8),
                       SizeValue(ReadBytes(rest, SizeBytes(u.tmpSize), 8)),
                       EmptyTable, u)
    IN  IF k # 0
        THEN <<SuffixArrayObject(data[1], suffixes[1], k, entries[1]), entries[2]>>
        ELSE <<SuffixArrayObject(data[1], suffixes[1], k, obj.prefixTable_), rest>>

\* SuffixArray sa(""): the object fromSave loads into
EmptyStringObject ==
    SuffixArrayObject(<<"$">>, buildSuffixArray(<<"$">>), 0, EmptyTable)

\* variant of MagicMismatch: the low byte of the magic alone is compared
MagicMismatchLowByte(bytes, u) ==
    ReadBytes(Stream(bytes), u.tmpMagic, 4)[1] # FILE_MAGIC[1]

\* tmpMagic != FILE_MAGIC in SuffixArray::load
MagicMismatch(bytes, u) == ReadBytes(Stream(bytes), u.tmpMagic, 4) # FILE_MAGIC

\* SuffixArray::load of the bytes into obj: whether it throws, the object
\* after the call, and whether the stream is good after the last read
load(obj, bytes, u) ==
    IF MagicMismatch(bytes, u)
    THEN [thrown |-> TRUE, object |-> obj, good |-> Skip(Stream(bytes), 4).good]
    ELSE LET read == deserialize(obj, Skip(Stream(bytes), 4), u)
         IN  [thrown |-> FALSE, object |-> read[1], good |-> read[2].good]

\* the outcomes of load.  A stream that is good after the last read has
\* filled every local it was read into, so no indeterminate value was used
\* and one outcome is all there is.
LoadOutcomes(obj, bytes) ==
    LET one == load(obj, bytes, CHOOSE u \in Indeterminate : TRUE)
    IN  IF one.good THEN {one} ELSE {load(obj, bytes, u) : u \in Indeterminate}

(***************************************************************************)
(* State machine.                                                          *)
(***************************************************************************)
NoQuery == [title |-> "", query |-> <<>>, result |-> <<>>]

\* the generator before the constructor runs: state is the position in the
\* sequence of draws, inside the workers that are in a call dist(rng), raced
\* whether two calls have overlapped
NoRng == [state |-> 0, inside |-> {}, raced |-> FALSE]

Init ==
    /\ pc = "start"
    /\ raw = <<>>
    /\ omp \in BOOLEAN
    /\ sa = NoObject
    /\ file = <<>>
    /\ sa2 = NoObject
    /\ q = NoQuery
    /\ mode = "Naive"
    /\ batch = <<>>
    /\ work = <<>>
    /\ rng = NoRng

\* SuffixArray(data, prefixTableSize): normalize, build the suffix array,
\* then the prefix table when prefixTableSize # 0 (parallel when par, the
\* build defining _OPENMP).  The objects the constructor can leave; NoObject
\* stands for the run the out-of-range read of the parallel builder ends.
ConstructorOutcomes(rawIn, k, par) ==
    UNION {LET suffixes == buildSuffixArray(d)
           IN  IF k # 0 /\ par
               THEN {IF ParallelThrows(d, suffixes, k, g)
                     THEN NoObject
                     ELSE SuffixArrayObject(d, suffixes, k,
                              buildPrefixTableParallel(d, suffixes, k, g)) :
                        g \in (-1)..Len(d)}
               ELSE {SuffixArrayObject(d, suffixes, k,
                        IF k # 0
                        THEN buildPrefixTable(d, suffixes, k, 0, Len(suffixes),
                                              EmptyTable)
                        ELSE EmptyTable)} :
           d \in NormalizedTexts(rawIn)}

\* SuffixArray sa(rawIn, k)
Construct(rawIn, k) ==
    /\ pc = "start"
    /\ raw' = rawIn
    /\ \E o \in ConstructorOutcomes(rawIn, k, omp) :
          IF o = NoObject
          THEN /\ pc' = "terminated"
               /\ sa' = sa
          ELSE /\ pc' = "built"
               /\ sa' = o
    /\ UNCHANGED <<omp, file, sa2, q, mode, batch, work, rng>>

(***************************************************************************)
(* The normalizer of the constructor step by step.  std::for_each under    *)
(* the execution policy calls the lambda on every byte of data_; under     *)
(* par_unseq (the build defines _OPENMP) the calls run on several threads  *)
(* in any interleaving, under seq one after the other.  A call is          *)
(* c = std::toupper(c), the test, and for a foreign byte dist(rng): a read *)
(* of the generator's state, then the write of its next state; the lambda  *)
(* holds rng and dist by reference and takes no lock.  A call dist(rng)    *)
(* that overlaps another one is a data race: what it stores is any value.  *)
(***************************************************************************)
\* the generator after std::mt19937 rng(dev()): the seed is any value
RngStates == 0..3

\* SuffixArray(rawIn, 0) starts: the member initializers and the generator
BeginNormalize(rawIn) ==
    /\ pc = "start"
    /\ raw' = rawIn
    /\ sa' = SuffixArrayObject(rawIn, [i \in 1..(Len(rawIn) + 1) |-> 0], 0, EmptyTable)
    /\ \E seed \in RngStates :
          rng' = [state |-> seed, inside |-> {}, raced |-> FALSE]
    /\ work' = [i \in 1..Len(rawIn) |-> [at |-> "todo", seen |-> 0]]
    /\ pc' = "normalizing"
    /\ UNCHANGED <<omp, file, sa2, q, mode, batch>>

\* the call for byte i: c = std::toupper(c) and the test of c
ToUpperStep(i) ==
    /\ pc = "normalizing"
    /\ i \in 1..Len(work)
    /\ work[i].at = "todo"
    /\ omp \/ \A j \in 1..(i - 1) : work[j].at = "done"
    /\ LET c == ToUpper(sa.data_[i])
       IN  /\ sa' = [sa EXCEPT !.data_[i] = c]
           /\ work' = [work EXCEPT ![i].at =
                          IF c # "A" /\ c # "T" /\ c # "G" /\ c # "C"
                          THEN "foreign" ELSE "done"]
    /\ UNCHANGED <<pc, raw, omp, file, sa2, q, mode, batch, rng>>

\* the call for byte i enters dist(rng) and reads the generator's state
DrawRead(i) ==
    /\ pc = "normalizing"
    /\ i \in 1..Len(work)
    /\ work[i].at = "foreign"
    /\ rng' = [state |-> rng.state,
               inside |-> rng.inside \cup {i},
               raced |-> rng.raced \/ rng.inside # {}]
    /\ work' = [work EXCEPT ![i] = [at |-> "drawing", seen |-> rng.state]]
    /\ UNCHANGED <<pc, raw, omp, sa, file, sa2, q, mode, batch>>

\* the call for byte i stores the generator's next state, leaves dist(rng)
\* and assigns c = ALPHABET[...]
DrawWrite(i) ==
    /\ pc = "normalizing"
    /\ i \in 1..Len(work)
    /\ work[i].at = "drawing"
    /\ \E r \in (IF rng.raced THEN RngStates ELSE {work[i].seen}),
          next \in (IF rng.raced THEN RngStates ELSE {(work[i].seen + 1) % 4}) :
          /\ sa' = [sa EXCEPT !.data_[i] = ALPHABET[r + 1]]
          /\ rng' = [state |-> next, inside |-> rng.inside \ {i}, raced |-> rng.raced]
    /\ work' = [work EXCEPT ![i].at = "done"]
    /\ UNCHANGED <<pc, raw, omp, file, sa2, q, mode, batch>>

\* std::for_each has returned: data_.push_back('$') and buildSuffixArray()
EndNormalize ==
    /\ pc = "normalizing"
    /\ \A i \in 1..Len(work) : work[i].at = "done"
    /\ sa' = SuffixArrayObject(Append(sa.data_, "$"),
                               buildSuffixArray(Append(sa.data_, "$")), 0, EmptyTable)
    /\ pc' = "built"
    /\ UNCHANGED <<raw, omp, file, sa2, q, mode, batch, work, rng>>

\* sa.query(q, mode) on the constructed index; query() is const, so one call
\* per behaviour shows all there is to see of it.  A call that would read
\* out of bounds, throw or loop for ever ends in "query_error".
Query(pat, m) ==
    /\ pc = "built"
    /\ mode' = m
    /\ IF QueryTotal(sa, pat, m)
       THEN /\ q' = [title |-> "q", query |-> pat, result |-> query(sa, pat, m)]
            /\ pc' = "queried"
       ELSE /\ q' = [title |-> "q", query |-> pat, result |-> <<>>]
            /\ pc' = "query_error"
    /\ UNCHANGED <<raw, omp, sa, file, sa2, batch, work, rng>>

\* sa.save(fname)
Save ==
    /\ pc = "built"
    /\ \E keyOrder \in Orders(DOMAIN sa.prefixTable_) :
          file' = save(sa, keyOrder)
    /\ pc' = "saved"
    /\ UNCHANGED <<raw, omp, sa, sa2, q, mode, batch, work, rng>>

\* sa2 = SuffixArray::fromSave(fname); the exception of load leaves no object
FromSave ==
    /\ pc \in {"saved", "tampered"}
    /\ \E r \in LoadOutcomes(EmptyStringObject, file) :
          IF r.thrown
          THEN /\ pc' = "invalid"
               /\ sa2' = sa2
          ELSE /\ pc' = "loaded"
               /\ sa2' = r.object
    /\ UNCHANGED <<raw, omp, sa, file, q, mode, batch, work, rng>>

\* the file load() finds is a shorter one: the first cut bytes of the saved file
Truncate ==
    /\ pc = "saved"
    /\ \E cut \in 0..(Len(file) - 1) : file' = SubSeq(file, 1, cut)
    /\ pc' = "tampered"
    /\ UNCHANGED <<raw, omp, sa, sa2, q, mode, batch, work, rng>>

\* the file load() finds has another first word: byte i of the magic is 0
OverwriteMagic(i) ==
    /\ pc = "saved"
    /\ file' = [file EXCEPT ![i] = 0]
    /\ pc' = "tampered"
    /\ UNCHANGED <<raw, omp, sa, sa2, q, mode, batch, work, rng>>

\* SuffixArray sa2(rawIn, k): a second object, which is to load the file
ConstructReceiver(rawIn, k) ==
    /\ pc \in {"saved", "tampered"}
    /\ \E o \in ConstructorOutcomes(rawIn, k, omp) :
          IF o = NoObject
          THEN /\ pc' = "terminated"
               /\ sa2' = sa2
          ELSE /\ pc' = "receiver"
               /\ sa2' = o
    /\ UNCHANGED <<raw, omp, sa, file, q, mode, batch, work, rng>>

\* sa2.load(fname) on the second object
Load ==
    /\ pc = "receiver"
    /\ \E r \in LoadOutcomes(sa2, file) :
          IF r.thrown
          THEN /\ pc' = "invalid"
               /\ sa2' = r.object
          ELSE /\ pc' = "reloaded"
               /\ sa2' = r.object
    /\ UNCHANGED <<raw, omp, sa, file, q, mode, batch, work, rng>>

(***************************************************************************)
(* queries(begin, end, mode): std::for_each under the execution policy     *)
(* calls query(q, mode) on every record; under par_unseq the calls run on  *)
(* several threads in any interleaving.  A call is two steps: the searches *)
(* (reads of prefixTable_, suffixes_, data_ and q.query, results in the    *)
(* locals lowerIndex and upperIndex) and the assignment to q.result.       *)
(***************************************************************************)
Todo == [at |-> "todo", lowerIndex |-> 0, upperIndex |-> 0]

\* variant of QueriesStore: the lambda takes its record by value
QueriesStoreCopy(recs, i, result) == recs

\* [this, mode](auto &q) { this->query(q, mode); }: the record is taken by
\* reference, the result is assigned to record i of the caller's range
QueriesStore(recs, i, result) == [recs EXCEPT ![i].result = result]

\* sa.queries(begin, end, m) is called on the records with patterns pats
Queries(pats, m) ==
    /\ pc = "built"
    /\ pats # <<>>
    /\ batch' = [i \in 1..Len(pats) |->
                    [title |-> <<"q", i>>, query |-> pats[i], result |-> <<>>]]
    /\ work' = [i \in 1..Len(pats) |-> Todo]
    /\ mode' = m
    /\ pc' = "batch"
    /\ UNCHANGED <<raw, omp, sa, file, sa2, q, rng>>

\* the call for record i runs its narrowing step and its two binary searches
Search(i) ==
    /\ pc = "batch"
    /\ i \in 1..Len(batch)
    /\ work[i].at = "todo"
    /\ LET range == SearchRange(sa, batch[i].query)
       IN  work' = [work EXCEPT ![i] =
                       [at |-> "searched",
                        lowerIndex |-> LowerBound(sa.data_, sa.suffixes_,
                                           batch[i].query, mode,
                                           range[1], range[2] - range[1]),
                        upperIndex |-> UpperBound(sa.data_, sa.suffixes_,
                                           batch[i].query, mode,
                                           range[1], range[2] - range[1])]]
    /\ UNCHANGED <<pc, raw, omp, sa, file, sa2, q, mode, batch, rng>>

\* the call for record i assigns q.result
Store(i) ==
    /\ pc = "batch"
    /\ i \in 1..Len(batch)
    /\ work[i].at = "searched"
    /\ batch' = QueriesStore(batch, i,
                    Slice(sa.suffixes_, work[i].lowerIndex, work[i].upperIndex))
    /\ work' = [work EXCEPT ![i].at = "done"]
    /\ UNCHANGED <<pc, raw, omp, sa, file, sa2, q, mode, rng>>

\* std::for_each returns when every call has returned
Return ==
    /\ pc = "batch"
    /\ \A i \in 1..Len(work) : work[i].at = "done"
    /\ pc' = "answered"
    /\ UNCHANGED <<raw, omp, sa, file, sa2, q, mode, batch, work, rng>>

Next ==
    \/ \E rawIn \in Strings(RefBytes, MaxLen), k \in 0..MaxK : Construct(rawIn, k)
    \/ \E pat \in Strings(PatBytes, MaxPat), m \in Modes : Query(pat, m)
    \/ Save
    \/ FromSave

Spec == Init /\ [][Next]_vars

\* the constructor alone (no prefix table), on raw inputs with lower-case,
\* foreign and '$' bytes
NextNormalizer ==
    \E rawIn \in Strings(NormBytes, MaxRaw) : Construct(rawIn, 0)

SpecNormalizer == Init /\ [][NextNormalizer]_vars

\* the constructor (no prefix table) with the calls of its normalizer as
\* steps of their own
NextNormalizerSteps ==
    \/ \E rawIn \in Strings(StepBytes, MaxStepLen) : BeginNormalize(rawIn)
    \/ \E i \in 1..MaxStepLen : ToUpperStep(i)
    \/ \E i \in 1..MaxStepLen : DrawRead(i)
    \/ \E i \in 1..MaxStepLen : DrawWrite(i)
    \/ EndNormalize

SpecNormalizerSteps == Init /\ [][NextNormalizerSteps]_vars

\* an index is built and one query is asked of it
NextQuery ==
    \/ \E rawIn \in Strings(RefBytes, MaxLen), k \in 0..MaxK : Construct(rawIn, k)
    \/ \E pat \in Strings(PatBytes, MaxPat), m \in Modes : Query(pat, m)

SpecQuery == Init /\ [][NextQuery]_vars

\* an index is saved; the file, whole, cut short or with another first word,
\* is loaded by fromSave or by a second object
NextLoad ==
    \/ \E rawIn \in Strings(RefBytes, MaxLoadLen), k \in 0..MaxLoadK :
          Construct(rawIn, k)
    \/ Save
    \/ Truncate
    \/ \E i \in 1..4 : OverwriteMagic(i)
    \/ \E in \in ReceiverInputs : ConstructReceiver(in[1], in[2])
    \/ Load
    \/ FromSave

SpecLoad == Init /\ [][NextLoad]_vars

\* an index is built and a batch of records is asked of it
NextBatch ==
    \/ \E rawIn \in Strings(RefBytes, MaxBatchLen), k \in 0..MaxBatchK :
          Construct(rawIn, k)
    \/ \E n \in 1..MaxBatch, m \in Modes :
          \E pats \in [1..n -> BatchPatterns] : Queries(pats, m)
    \/ \E i \in 1..MaxBatch : Search(i)
    \/ \E i \in 1..MaxBatch : Store(i)
    \/ Return

SpecBatch == Init /\ [][NextBatch]_vars

(***************************************************************************)
(* Vocabulary of the properties.                                           *)
(***************************************************************************)
\* n, the length of the reference
RefLen(obj) == Len(obj.data_) - 1

\* the elements of a result list
ResultSet(r) == {r[i] : i \in 1..Len(r)}

\* { p in [0, n) : T[p..p+|pat|) == pat }
Occurrences(obj, pat) ==
    {p \in 0..(RefLen(obj) - 1) :
        /\ p + Len(pat) <= Len(obj.data_)
        /\ SubSeq(obj.data_, p + 1, p + Len(pat)) = pat}

\* the suffix T[A[i]..] starts with w
StartsWith(obj, i, w) ==
    /\ At(obj.suffixes_, i) + Len(w) <= Len(obj.data_)
    /\ SubSeq(obj.data_, At(obj.suffixes_, i) + 1, At(obj.suffixes_, i) + Len(w)) = w

\* the bytes of the reference T, the stored text without its '$'
TextBytes(obj) == {obj.data_[i] : i \in 1..RefLen(obj)}

\* the index exists: the constructor returned
Built ==
    pc \in {"built", "queried", "saved", "tampered", "receiver", "loaded",
            "reloaded", "invalid", "batch", "answered"}

\* the same text and suffix array without a prefix table
WithoutTable(obj) == SuffixArrayObject(obj.data_, obj.suffixes_, 0, EmptyTable)

OtherMode(m) == IF m = "Naive" THEN "SimpleAccelerant" ELSE "Naive"

\* indices the recorded pair of key w covers, read as inclusive lo..hi
Covered(obj, w) == obj.prefixTable_[w][1]..obj.prefixTable_[w][2]

\* suffix-array indices whose suffix has at least k bytes
LongIndices(obj) ==
    {i \in 0..(Len(obj.suffixes_) - 1) :
        Len(obj.data_) - At(obj.suffixes_, i) >= obj.prefixTableSize_}

\* the n bytes of the file after the first pos
Field(bytes, pos, n) == SubSeq(bytes, pos + 1, pos + n)

\* the bytes b are the 8 bytes of the unsigned 64-bit value v, low byte first
IsSize(b, v) ==
    /\ Len(b) = 8
    /\ b[1] + 256 * b[2] + 65536 * b[3] = v
    /\ \A i \in 4..8 : b[i] = 0

\* the bytes b are the 4 bytes of the signed 32-bit value v >= 0, low byte first
IsInt32(b, v) ==
    /\ Len(b) = 4
    /\ b[1] + 256 * b[2] + 65536 * b[3] = v
    /\ b[4] = 0

\* from pos on the file holds one entry (key length, key bytes, lo, hi) for
\* each key of keys, in some order, and nothing else
RECURSIVE EntriesAt(_, _, _, _)
EntriesAt(bytes, pos, obj, keys) ==
    IF keys = {} THEN Len(bytes) = pos
    ELSE \E w \in keys :
            /\ Len(bytes) >= pos + 8 + Len(w) + 8
            /\ IsSize(Field(bytes, pos, 8), Len(w))
            /\ \A i \in 1..Len(w) : bytes[pos + 8 + i] = Ord(w[i])
            /\ IsInt32(Field(bytes, pos + 8 + Len(w), 4), obj.prefixTable_[w][1])
            /\ IsInt32(Field(bytes, pos + 8 + Len(w) + 4, 4), obj.prefixTable_[w][2])
            /\ EntriesAt(bytes, pos + 8 + Len(w) + 8, obj, keys \ {w})

\* the file holds a first 32-bit word and it is not 0xABEEFDAD
WrongMagic(bytes) ==
    /\ Len(bytes) >= 4
    /\ SubSeq(bytes, 1, 4) # <<173, 253, 238, 171>>

\* the file starts with the magic and is a proper prefix of a file save()
\* writes for obj: it ends before the bytes its fields announce
TruncatedSave(bytes, obj) ==
    /\ Len(bytes) >= 4
    /\ SubSeq(bytes, 1, 4) = <<173, 253, 238, 171>>
    /\ \E keyOrder \in Orders(DOMAIN obj.prefixTable_) :
          /\ Len(bytes) < Len(save(obj, keyOrder))
          /\ bytes = SubSeq(save(obj, keyOrder), 1, Len(bytes))

\* the suffix at A[i], truncated to |pat| bytes, against pat: -1, 0 or 1 in
\* bytewise order, a proper prefix being smaller
TruncatedSuffixCompare(obj, i, pat) ==
    SeqCompare(SubSeq(obj.data_, At(obj.suffixes_, i) + 1,
                      Min(Len(obj.data_), At(obj.suffixes_, i) + Len(pat))),
               pat, 1)

\* the smallest i in [S, E] whose truncated suffix is >= pat, E when none
LowerIndexOf(obj, pat, S, E) ==
    CHOOSE i \in S..E :
        /\ i = E \/ TruncatedSuffixCompare(obj, i, pat) >= 0
        /\ \A j \in S..(i - 1) : TruncatedSuffixCompare(obj, j, pat) < 0

\* the smallest i in [S, E] whose truncated suffix is > pat, E when none
UpperIndexOf(obj, pat, S, E) ==
    CHOOSE i \in S..E :
        /\ i = E \/ TruncatedSuffixCompare(obj, i, pat) > 0
        /\ \A j \in S..(i - 1) : TruncatedSuffixCompare(obj, j, pat) <= 0

\* the values the read of *std::prev(begin(suffixes_)) is given in the model
PrevValues(obj) == (-1)..Len(obj.data_)

\* the local tables of the NUM_CHUNKS workers, tables.at(i) for i = 0..127
LocalMaps(obj, g) ==
    [i \in 0..(NUM_CHUNKS - 1) |->
        ChunkTable(obj.data_, obj.suffixes_, obj.prefixTableSize_, i, g)]

\* the workers whose local table holds key w
Recorders(maps, w) == {i \in DOMAIN maps : w \in DOMAIN maps[i]}

\* the worker whose chunk [s_i, s_i+1) contains index j
ChunkOf(j, size) ==
    CHOOSE i \in 0..(NUM_CHUNKS - 1) :
        ChunkStart(i, size) <= j /\ j < ChunkStart(i + 1, size)

\* first indices of the equal-k-prefix groups: the suffix has k bytes or more
\* and its k-prefix differs from the one of the entry before it
GroupStarts(obj) ==
    {j \in LongIndices(obj) :
        \/ j = 0
        \/ ~hasSamePrefix(obj.data_, obj.prefixTableSize_,
                          At(obj.suffixes_, j), At(obj.suffixes_, j - 1))}

\* the index was built by buildPrefixTableParallel
ParallelBuilt == pc = "built" /\ omp /\ sa.prefixTableSize_ # 0

\* std::find_if / std::find_if_not over [first, last) that returned stop:
\* the indices it dereferenced
ScanReads(first, stop, last) == {x \in first..(last - 1) : x <= stop}

\* indices dereferenced by the while loop of buildPrefixTable from iter
RECURSIVE GroupReads(_, _, _, _, _)
GroupReads(data, suffixes, k, iter, rangeEnd) ==
    IF rangeEnd - iter <= 0 THEN {}
    ELSE LET endOfRange == FindNotSamePrefix(data, suffixes, k, At(suffixes, iter),
                                             iter, Len(suffixes))
         IN  ScanReads(iter, endOfRange, Len(suffixes))
                \cup GroupReads(data, suffixes, k, endOfRange, rangeEnd)

\* indices of suffixes_ that worker i of buildPrefixTableParallel
\* dereferences: *iter and *std::prev(iter) of the boundary check, the scan
\* past the boundary group, and the reads of buildPrefixTable (none after
\* the boundary check when its comparison throws)
ChunkDereferences(data, suffixes, k, i, g) ==
    LET first == ChunkStart(i, Len(suffixes))
        endOfRange == ChunkStart(i + 1, Len(suffixes))
        skips == /\ i # 0
                 /\ hasSamePrefix(data, k, At(suffixes, first),
                                  PrevOf(suffixes, first, g))
        iter == IF skips
                THEN FindNotSamePrefix(data, suffixes, k, At(suffixes, first),
                                       first, endOfRange)
                ELSE first
        start == FindLongEnough(data, suffixes, k, iter, endOfRange)
    IN  IF ChunkThrows(data, suffixes, k, i, g)
        THEN {first, first - 1}
        ELSE (IF i # 0 THEN {first, first - 1} ELSE {})
                \cup (IF skips THEN ScanReads(first, iter, endOfRange) ELSE {})
                \cup ScanReads(iter, start, endOfRange)
                \cup GroupReads(data, suffixes, k, start, endOfRange)

(***************************************************************************)
(* Properties.                                                             *)
(***************************************************************************)

\* C1 (substring matching): after a query for a pattern q the set of
\* positions in q.result is { p in [0, n) : T[p..p+|q|) == q }.  Stated for
\* the non-empty patterns; the empty pattern is the subject of C10.
C1_SubstringMatching ==
    (pc = "queried" /\ q.query # <<>>)
        => ResultSet(q.result) = Occurrences(sa, q.query)

\* C2 (prefix-table invariance): for k > 0 and |q| >= k the index built with
\* parameter k answers as the same text and suffix array do with parameter 0.
C2_PrefixTableInvariance ==
    (pc = "queried" /\ sa.prefixTableSize_ > 0
        /\ Len(q.query) >= sa.prefixTableSize_)
        => q.result = query(WithoutTable(sa), q.query, mode)

\* C3 (mode equivalence): the result list of a query is the list the other
\* query mode produces for the same pattern on the same index.
C3_ModeEquivalence ==
    pc = "queried" => q.result = query(sa, q.query, OtherMode(mode))

\* C3 witness: an accelerated query with several matches of a pattern of
\* two or more bytes, on an index with a prefix table
C3_Witness ==
    /\ pc = "queried"
    /\ mode = "SimpleAccelerant"
    /\ Len(q.query) >= 2
    /\ Len(q.result) >= 2
    /\ sa.prefixTableSize_ > 0

\* C4 (round trip): the object fromSave returns equals the saved one in
\* text, suffix array, k and prefix table.
C4_RoundTrip ==
    pc = "loaded"
        => /\ sa2.data_ = sa.data_
           /\ sa2.suffixes_ = sa.suffixes_
           /\ sa2.prefixTableSize_ = sa.prefixTableSize_
           /\ DOMAIN sa2.prefixTable_ = DOMAIN sa.prefixTable_
           /\ \A w \in DOMAIN sa.prefixTable_ : sa2.prefixTable_[w] = sa.prefixTable_[w]

\* C4 witness: an index with a table of three or more keys was saved and
\* loaded
C4_Witness ==
    /\ pc = "loaded"
    /\ sa.prefixTableSize_ > 0
    /\ Cardinality(DOMAIN sa.prefixTable_) >= 3
    /\ Len(sa2.suffixes_) >= 4

\* C5 as claimed (ascending result order): the positions of q.result are in
\* ascending numeric order.
C5_AscendingPositions ==
    pc = "queried"
        => \A i, j \in 1..Len(q.result) : i < j => q.result[i] < q.result[j]

\* C5 as amended: the positions of q.result are listed in increasing
\* lexicographic order of the suffixes that start at them (the list is a
\* slice of the suffix array), whatever their numeric order.
C5_SuffixOrder ==
    pc = "queried"
        => /\ \A i, j \in 1..Len(q.result) :
                i < j => SuffixLess(sa.data_, q.result[i], q.result[j])
           /\ \E lo \in 0..Len(sa.suffixes_) :
                q.result = SubSeq(sa.suffixes_, lo + 1, lo + Len(q.result))

\* C5 witness: a result whose first position is numerically above its second
C5_Witness ==
    /\ pc = "queried"
    /\ Len(q.result) >= 2
    /\ q.result[1] > q.result[2]

\* C6 (normalizer postcondition): the stored text has one byte more than the
\* raw input, ends with its only '$', is A/T/G/C before it, and keeps every
\* raw byte that is A/T/G/C after upper-casing, upper-cased, at its index.
C6_NormalizerPostcondition ==
    pc = "built"
        => /\ Len(sa.data_) = Len(raw) + 1
           /\ sa.data_[Len(raw) + 1] = "$"
           /\ \A i \in 1..Len(raw) :
                /\ sa.data_[i] \in {"A", "T", "G", "C"}
                /\ ToUpper(raw[i]) \in {"A", "T", "G", "C"}
                      => sa.data_[i] = ToUpper(raw[i])

\* C6 witness: a raw input with a lower-case DNA byte that was kept, a '$'
\* and a foreign byte that were replaced
C6_Witness ==
    /\ pc = "built"
    /\ \E i, j, l \in 1..Len(raw) :
          /\ raw[i] = "t" /\ sa.data_[i] = "T"
          /\ raw[j] = "$" /\ sa.data_[j] = "G"
          /\ raw[l] = "N" /\ sa.data_[l] = "C"

\* C7 (key length): every key of the prefix table of an index built with
\* k > 0 has exactly k bytes.
C7_KeyLength ==
    (Built /\ sa.prefixTableSize_ > 0)
        => \A w \in DOMAIN sa.prefixTable_ : Len(w) = sa.prefixTableSize_

\* C8 (coverage): the recorded intervals are pairwise disjoint and their
\* union is the set of suffix-array indices whose suffix has >= k bytes.
C8_Coverage ==
    (Built /\ sa.prefixTableSize_ > 0)
        => /\ \A v, w \in DOMAIN sa.prefixTable_ :
                v # w => Covered(sa, v) \cap Covered(sa, w) = {}
           /\ UNION {Covered(sa, w) : w \in DOMAIN sa.prefixTable_} = LongIndices(sa)

\* C9 (group exactness): for every key w with pair (lo, hi), lo <= hi, the
\* suffixes at lo..hi start with w, those at lo-1 and hi+1 do not.
C9_GroupExactness ==
    (Built /\ sa.prefixTableSize_ > 0)
        => \A w \in DOMAIN sa.prefixTable_ :
              LET lo == sa.prefixTable_[w][1]
                  hi == sa.prefixTable_[w][2]
              IN  /\ 0 <= lo /\ lo <= hi /\ hi < Len(sa.suffixes_)
                  /\ \A i \in lo..hi : StartsWith(sa, i, w)
                  /\ lo - 1 >= 0 => ~StartsWith(sa, lo - 1, w)
                  /\ hi + 1 < Len(sa.suffixes_) => ~StartsWith(sa, hi + 1, w)

\* C9 witness: a table built by the parallel builder with a group of two or
\* more suffixes that has a neighbour on both sides
C9_Witness ==
    /\ pc = "built"
    /\ omp
    /\ \E w \in DOMAIN sa.prefixTable_ :
          /\ sa.prefixTable_[w][1] >= 1
          /\ sa.prefixTable_[w][2] > sa.prefixTable_[w][1]
          /\ sa.prefixTable_[w][2] + 1 < Len(sa.suffixes_)

\* C10 (empty pattern): a query for the empty pattern returns the whole
\* suffix array, n+1 entries.
C10_EmptyPattern ==
    (pc = "queried" /\ q.query = <<>>)
        => /\ q.result = sa.suffixes_
           /\ Len(q.result) = RefLen(sa) + 1

\* C10 witness: the empty pattern asked of an index with a prefix table
C10_Witness ==
    /\ pc = "queried"
    /\ q.query = <<>>
    /\ sa.prefixTableSize_ > 0
    /\ DOMAIN sa.prefixTable_ # {}
    /\ Len(q.result) >= 3

\* C11 (no match): a query for a pattern with a byte that does not occur in
\* the reference T returns the empty list, for every k and in either mode.
C11_NoMatch ==
    (pc = "queried" /\ \E i \in 1..Len(q.query) : q.query[i] \notin TextBytes(sa))
        => q.result = <<>>

\* C11 witness: an accelerated query, on an index with a prefix table, for a
\* pattern at least k long whose first byte occurs in T and whose last does not
C11_Witness ==
    /\ pc = "queried"
    /\ mode = "SimpleAccelerant"
    /\ DOMAIN sa.prefixTable_ # {}
    /\ Len(q.query) >= 2
    /\ Len(q.query) >= sa.prefixTableSize_
    /\ q.query[1] \in TextBytes(sa)
    /\ q.query[Len(q.query)] \notin TextBytes(sa)
    /\ q.result = <<>>

C17_SingleKeyAA ==
    (Built /\ raw = <<"A", "A", "A", "A">> /\ sa.prefixTableSize_ = 2)
        => /\ DOMAIN sa.prefixTable_ = {<<"A", "A">>}
           /\ Covered(sa, <<"A", "A">>) = LongIndices(sa)

\* C17 as amended: that index has exactly the keys AA and A$; AA covers the
\* suffix-array indices 2..4, the suffixes that start with AA, and A$ covers
\* index 1, the suffix A$ of 2 bytes with the sentinel.
C17_KeysAAandASentinel ==
    (Built /\ raw = <<"A", "A", "A", "A">> /\ sa.prefixTableSize_ = 2)
        => /\ DOMAIN sa.prefixTable_ = {<<"A", "A">>, <<"A", "$">>}
           /\ Covered(sa, <<"A", "A">>) = 2..4
           /\ Covered(sa, <<"A", "A">>)
                 = {i \in 0..4 : StartsWith(sa, i, <<"A", "A">>)}
           /\ Covered(sa, <<"A", "$">>) = {1}
           /\ Covered(sa, <<"A", "A">>) \cup Covered(sa, <<"A", "$">>) = LongIndices(sa)

\* C17 witness: the index of AAAA with k = 2 built by the parallel builder
C17_Witness ==
    /\ pc = "built"
    /\ omp
    /\ raw = <<"A", "A", "A", "A">>
    /\ sa.data_ = <<"A", "A", "A", "A", "$">>
    /\ sa.prefixTableSize_ = 2
    /\ sa.suffixes_ = <<4, 3, 2, 1, 0>>

\* C19 (range narrowing): when the table is not empty and |q| >= k, and the
\* first k bytes w of q are a key, the range query() searches is exactly the
\* set of suffix-array indices whose suffix starts with w.
C19_RangeNarrowing ==
    (/\ pc = "queried"
     /\ DOMAIN sa.prefixTable_ # {}
     /\ Len(q.query) >= sa.prefixTableSize_
     /\ SubSeq(q.query, 1, sa.prefixTableSize_) \in DOMAIN sa.prefixTable_)
        => LET w == SubSeq(q.query, 1, sa.prefixTableSize_)
               range == SearchRange(sa, q.query)
           IN  {i \in 0..(Len(sa.suffixes_) - 1) : range[1] <= i /\ i < range[2]}
                 = {i \in 0..(Len(sa.suffixes_) - 1) : StartsWith(sa, i, w)}

\* C20 (missing key): when the table is not empty, |q| >= k and the first k
\* bytes of q are not a key, the result is the empty list.
C20_MissingKey ==
    (/\ pc = "queried"
     /\ DOMAIN sa.prefixTable_ # {}
     /\ Len(q.query) >= sa.prefixTableSize_
     /\ SubSeq(q.query, 1, sa.prefixTableSize_) \notin DOMAIN sa.prefixTable_)
        => q.result = <<>>

\* C20 witness: the first k bytes of the pattern are not a key although each
\* byte of the pattern occurs in T
C20_Witness ==
    /\ pc = "queried"
    /\ DOMAIN sa.prefixTable_ # {}
    /\ Len(q.query) >= sa.prefixTableSize_
    /\ SubSeq(q.query, 1, sa.prefixTableSize_) \notin DOMAIN sa.prefixTable_
    /\ \A i \in 1..Len(q.query) : q.query[i] \in TextBytes(sa)
    /\ q.result = <<>>

\* C18 (persisted layout): the file save() writes holds, in this order, the
\* magic 0xABEEFDAD, the length of the text and its bytes, the length of the
\* suffix array and its 32-bit entries, and k; the entry count and one
\* (key length, key bytes, lo, hi) entry per key follow if and only if
\* k # 0, and nothing follows k when k = 0.
C18_PersistedLayout ==
    pc = "saved"
        => LET n1 == Len(sa.data_)
               saPos == 4 + 8 + n1
               kPos == saPos + 8 + 4 * Len(sa.suffixes_)
           IN  /\ Len(file) >= kPos + 8
               /\ Field(file, 0, 4) = <<173, 253, 238, 171>>
               /\ IsSize(Field(file, 4, 8), n1)
               /\ \A i \in 1..n1 : file[12 + i] = Ord(sa.data_[i])
               /\ IsSize(Field(file, saPos, 8), Len(sa.suffixes_))
               /\ \A i \in 1..Len(sa.suffixes_) :
                     IsInt32(Field(file, saPos + 8 + 4 * (i - 1), 4), sa.suffixes_[i])
               /\ IsSize(Field(file, kPos, 8), sa.prefixTableSize_)
               /\ IF sa.prefixTableSize_ = 0
                  THEN Len(file) = kPos + 8
                  ELSE /\ Len(file) >= kPos + 16
                       /\ IsSize(Field(file, kPos + 8, 8),
                                 Cardinality(DOMAIN sa.prefixTable_))
                       /\ EntriesAt(file, kPos + 16, sa, DOMAIN sa.prefixTable_)

\* C18 witness: a saved index with k # 0 and three or more keys
C18_Witness ==
    /\ pc = "saved"
    /\ sa.prefixTableSize_ # 0
    /\ Cardinality(DOMAIN sa.prefixTable_) >= 3
    /\ Len(file) > 4 + 8 + Len(sa.data_) + 8 + 4 * Len(sa.suffixes_) + 16

\* C16 (query totality): on the index the constructor built, for every DNA
\* pattern and either mode, query() runs to its end without an error: each
\* iteration of the two binary-search loops leaves a strictly smaller range,
\* and every read of A and of T is inside its bounds.
C16_QueryTotality ==
    /\ pc # "query_error"
    /\ pc = "queried" => QueryTotal(sa, q.query, mode)

\* C16 witness: an accelerated query that went through a narrowed range of
\* an index of four or more suffixes and found the pattern
C16_Witness ==
    /\ pc = "queried"
    /\ mode = "SimpleAccelerant"
    /\ Len(sa.suffixes_) >= 4
    /\ SearchRange(sa, q.query) # <<0, Len(sa.suffixes_)>>
    /\ Len(q.query) >= 2
    /\ q.result # <<>>

\* C13 (magic check): a call of load() (by fromSave or on a second object)
\* on a file whose first 32-bit word is not 0xABEEFDAD ends with the error,
\* and the text, suffix array, k and prefix table of the object that called
\* it are what they were before the call.
C13_MagicCheck ==
    [][(pc' \in {"loaded", "reloaded", "invalid"} /\ WrongMagic(file))
          => (pc' = "invalid" /\ sa2' = sa2)]_vars

\* C13 witness: a second object with a prefix table has called load() on a
\* file with a wrong first word and got the error
C13_Witness ==
    /\ pc = "invalid"
    /\ WrongMagic(file)
    /\ Len(sa2.data_) >= 2
    /\ DOMAIN sa2.prefixTable_ # {}
    /\ sa2.data_ # sa.data_

\* C14 (truncated index): a call of load() on a file that starts with the
\* magic and ends before all the bytes its length prefixes announce ends
\* with the error; it does not return an index.
C14_TruncatedFails ==
    TruncatedSave(file, sa) => pc \notin {"loaded", "reloaded"}

\* C15 (batch independence): during queries() every step of a worker leaves
\* the index (T, A, P, k) and every record's title and pattern as they are
\* and changes the result of no record but the one the worker owns; when
\* the batch returns, every record's result is the result of a single
\* query() call for its pattern, in every interleaving of the workers.
C15_BatchIndependence ==
    [][pc = "batch"
          => /\ sa' = sa
             /\ Len(batch') = Len(batch)
             /\ \A i \in 1..Len(batch) :
                   /\ batch'[i].title = batch[i].title
                   /\ batch'[i].query = batch[i].query
                   /\ batch'[i].result # batch[i].result
                         => (work[i].at = "searched" /\ work'[i].at = "done")
             /\ pc' = "answered"
                   => \A i \in 1..Len(batch) :
                         batch'[i].result = query(sa, batch[i].query, mode)]_vars

\* C15 witness: two calls overlap on an index with a prefix table: the call
\* for the second record has stored its result, not empty, while the call
\* for the first has searched and not yet stored
C15_Witness ==
    /\ pc = "batch"
    /\ Len(batch) >= 2
    /\ DOMAIN sa.prefixTable_ # {}
    /\ work[1].at = "searched"
    /\ work[1].upperIndex > work[1].lowerIndex
    /\ work[2].at = "done"
    /\ batch[2].result # <<>>
    /\ batch[1].query # batch[2].query

\* C21 (short patterns bypass the table): when the index has no prefix table
\* or the pattern is shorter than k, query() searches the full range
\* [0, len(A)) and returns what it returns on the same text and suffix array
\* with k = 0.
C21_ShortPatternBypass ==
    (/\ pc = "queried"
     /\ \/ DOMAIN sa.prefixTable_ = {}
        \/ Len(q.query) < sa.prefixTableSize_)
        => /\ SearchRange(sa, q.query) = <<0, Len(sa.suffixes_)>>
           /\ q.result = query(WithoutTable(sa), q.query, mode)

\* a table with a key exists, the pattern is shorter than k and occurs in T
C21_Witness ==
    /\ pc = "queried"
    /\ DOMAIN sa.prefixTable_ # {}
    /\ q.query # <<>>
    /\ Len(q.query) < sa.prefixTableSize_
    /\ q.result # <<>>

\* C22 (bounded binary search): with [S, E) the range the narrowing step
\* selected, query() returns the slice A[lower..upper), lower the smallest
\* index of [S, E] whose suffix truncated to |q| bytes is >= q and upper the
\* smallest whose truncated suffix is > q (E when there is none); so
\* S <= lower <= upper <= E and the result is exactly the entries of A[S..E)
\* whose suffix starts with q.
C22_BoundedBinarySearch ==
    pc = "queried"
        => LET range == SearchRange(sa, q.query)
               lower == LowerIndexOf(sa, q.query, range[1], range[2])
               upper == UpperIndexOf(sa, q.query, range[1], range[2])
           IN  /\ range[1] <= lower /\ lower <= upper /\ upper <= range[2]
               /\ q.result = Slice(sa.suffixes_, lower, upper)
               /\ ResultSet(q.result) =
                      {At(sa.suffixes_, i) : i \in {j \in range[1]..(range[2] - 1) :
                                                      StartsWith(sa, j, q.query)}}

\* the table narrowed the range, the range begins with a suffix smaller than
\* the pattern and the result is not empty
C22_Witness ==
    /\ pc = "queried"
    /\ SearchRange(sa, q.query) # <<0, Len(sa.suffixes_)>>
    /\ SearchRange(sa, q.query)[1] <
          LowerIndexOf(sa, q.query, SearchRange(sa, q.query)[1], SearchRange(sa, q.query)[2])
    /\ q.result # <<>>

\* C28 (soundness of every answer): whatever k the index was built with and
\* whichever mode and range, every position query() returns is an occurrence
\* of the pattern, T[p..p+|q|) = q, and no position is returned twice.
C28_Soundness ==
    pc = "queried"
        => /\ \A i \in 1..Len(q.result) :
                 /\ 0 <= q.result[i]
                 /\ q.result[i] + Len(q.query) <= RefLen(sa)
                 /\ SubSeq(sa.data_, q.result[i] + 1, q.result[i] + Len(q.query)) = q.query
           /\ \A i, j \in 1..Len(q.result) : q.result[i] = q.result[j] => i = j

\* a key of the table narrowed the range and the answer has two positions
C28_Witness ==
    /\ pc = "queried"
    /\ q.query # <<>>
    /\ SearchRange(sa, q.query) # <<0, Len(sa.suffixes_)>>
    /\ Len(q.result) >= 2

\* C26 (parallel builder stays in bounds): for every suffix-array length and
\* every worker i, every element of A that buildPrefixTableParallel
\* dereferences, the predecessor A[s_i - 1] of the boundary check included,
\* has an index in [0, len(A)).
C26_ParallelInBounds ==
    ParallelBuilt
        => \A i \in 0..(NUM_CHUNKS - 1), g \in PrevValues(sa) :
              \A x \in ChunkDereferences(sa.data_, sa.suffixes_,
                                         sa.prefixTableSize_, i, g) :
                 0 <= x /\ x < Len(sa.suffixes_)

\* C24 (parallel build equals sequential build): for k > 0 the table built
\* by buildPrefixTableParallel has the keys and the pairs of the table one
\* call of buildPrefixTable over [0, len(A)) builds.
C24_ParallelEqualsSequential ==
    ParallelBuilt
        => sa.prefixTable_ =
              buildPrefixTable(sa.data_, sa.suffixes_, sa.prefixTableSize_,
                               0, Len(sa.suffixes_), EmptyTable)

\* C23 (conflict-free parallel build): each equal-k-prefix group is recorded
\* by exactly one worker, the one whose chunk contains the first index of
\* the group, and no key is in the local tables of two workers.
C23_ConflictFreeBuild ==
    ParallelBuilt
        => \A g \in PrevValues(sa) :
              (/\ ~ParallelThrows(sa.data_, sa.suffixes_, sa.prefixTableSize_, g)
               /\ sa.prefixTable_ = buildPrefixTableParallel(sa.data_, sa.suffixes_,
                                         sa.prefixTableSize_, g))
                 => LET maps == LocalMaps(sa, g)
                    IN  /\ \A j \in GroupStarts(sa) :
                              Recorders(maps, Substr(sa.data_, At(sa.suffixes_, j),
                                                     sa.prefixTableSize_))
                                 = {ChunkOf(j, Len(sa.suffixes_))}
                        /\ \A i \in DOMAIN maps : \A w \in DOMAIN maps[i] :
                              Recorders(maps, w) = {i}

\* C25 (load replaces the whole index): after a successful load of a file
\* that save() wrote, on any object, the object's text, suffix array, k and
\* prefix table are those persisted in the file; in particular the prefix
\* table is empty when the file was saved with k = 0.
C25_LoadReplaces ==
    (/\ pc = "reloaded"
     /\ \E keyOrder \in Orders(DOMAIN sa.prefixTable_) : file = save(sa, keyOrder))
        => /\ sa2.data_ = sa.data_
           /\ sa2.suffixes_ = sa.suffixes_
           /\ sa2.prefixTableSize_ = sa.prefixTableSize_
           /\ sa2.prefixTable_ = sa.prefixTable_
           /\ sa.prefixTableSize_ = 0 => sa2.prefixTable_ = EmptyTable

\* C27 (race-free normalization): when the constructor normalizes the text
\* with several workers, no two workers access the same mutable state, the
\* state of the random-number generator in particular, at the same time
\* (the code takes no lock, so at the same time is without synchronization).
C27_RaceFreeNormalization ==
    pc = "normalizing" => Cardinality(rng.inside) <= 1
====
